---- MODULE Spec2Model ----
(***************************************************************************)
(* Model of the spectrogram command-line program audio_task/audio_task.py: *)
(* library import, argument parsing, load_audio_files, the interactive     *)
(* menu of main, the two plot functions, and the __main__ guard.           *)
(*                                                                         *)
(* Strings that the program takes apart (paths, extensions, labels) are    *)
(* sequences of one-character strings, so that os.path.splitext, str.lower *)
(* and the f-string labels are computed rather than assumed.               *)
(*                                                                         *)
(* Library calls are modelled by their documented behaviour:               *)
(*   librosa.load            returns (y, sr) or raises an Exception        *)
(*   librosa.util.valid_audio returns True, or raises ParameterError when  *)
(*                           the buffer is not finite everywhere           *)
(*   librosa.stft            returns the complex matrix D                  *)
(*   librosa.amplitude_to_db(S, ref=np.max) with amin=1e-5, top_db=80      *)
(* A waveform is represented by the class of its samples: "ok" (finite,    *)
(* not all zero), "zeros", "empty", "nan" (some non-finite sample).        *)
(***************************************************************************)
EXTENDS Integers, Sequences, FiniteSets, TLC

VARIABLES
    pc,             \* position of the program
    file_paths,     \* args.sound_file_paths
    sound_names,    \* main's sound_names
    loaded_sounds,  \* main's loaded_sounds / load_audio_files' result
    i,              \* index of the next path in load_audio_files' loop
    diagnostics,    \* lines printed by load_audio_files
    decodeCalls,    \* full paths librosa.load has been invoked on
    choice,         \* the last string read by input()
    mode,           \* which plot function is running
    k,              \* index of the next zip pair in the plot loop
    figures,        \* figures created by the running / last plot request
    stft_y,         \* the argument of the most recent librosa.stft call
    lastPrint,      \* the last line printed by the menu loop
    raised,         \* the exception that ended the program, "none" otherwise
    raisedAt,       \* the position that exception was raised at
    interrupted,    \* a KeyboardInterrupt has been delivered inside main
    status,         \* the exit status of the process, -1 while it runs
    D,              \* magnitudes np.abs(D), as dB levels per (bin, frame)
    S_db            \* the result of amplitude_to_db

vars == <<pc, file_paths, sound_names, loaded_sounds, i, diagnostics,
          decodeCalls, choice, mode, k, figures, stft_y, lastPrint, raised,
          raisedAt, interrupted, status, D, S_db>>

(***************************************************************************)
(* Bounds                                                                  *)
(***************************************************************************)
MaxPaths == 3

NumBins == 2

NumFrames == 2

(***************************************************************************)
(* Strings                                                                 *)
(***************************************************************************)
UpperLetters ==
    <<"A","B","C","D","E","F","G","H","I","J","K","L","M",
      "N","O","P","Q","R","S","T","U","V","W","X","Y","Z">>

LowerLetters ==
    <<"a","b","c","d","e","f","g","h","i","j","k","l","m",
      "n","o","p","q","r","s","t","u","v","w","x","y","z">>

lowerChar(c) ==
    IF \E n \in 1..26 : UpperLetters[n] = c
    THEN LowerLetters[CHOOSE n \in 1..26 : UpperLetters[n] = c]
    ELSE c

\* str.lower()
lower(s) == [n \in 1..Len(s) |-> lowerChar(s[n])]

\* str.rfind(ch), 1-based, 0 when absent
rfind(s, ch) ==
    IF \E n \in 1..Len(s) : s[n] = ch
    THEN CHOOSE n \in 1..Len(s) :
            s[n] = ch /\ \A m \in (n+1)..Len(s) : s[m] # ch
    ELSE 0

\* os.path.splitext(p)[1]: the extension with its dot, "" when the last dot
\* is in a directory part or only dots precede it in the file name
splitext_ext(p) ==
    LET sepIndex == rfind(p, "/")
        dotIndex == rfind(p, ".")
    IN  IF dotIndex > sepIndex
           /\ \E n \in (sepIndex+1)..(dotIndex-1) : p[n] # "."
        THEN SubSeq(p, dotIndex, Len(p))
        ELSE <<>>

\* os.path.splitext(full_path)[1][1:]
file_format(full_path) ==
    LET ext == splitext_ext(full_path)
    IN  IF Len(ext) = 0 THEN <<>> ELSE SubSeq(ext, 2, Len(ext))

SUPPORTED_FORMATS ==
    { <<"a","i","f","f">>, <<"a","u">>, <<"a","v","r">>, <<"c","a","f">>,
      <<"f","l","a","c">>, <<"h","t","k">>, <<"s","v","x">>,
      <<"m","a","t","4">>, <<"m","a","t","5">>, <<"m","p","c","2","k">>,
      <<"m","p","3">>, <<"o","g","g">>, <<"p","a","f">>, <<"p","v","f">>,
      <<"r","a","w">>, <<"r","f","6","4">>, <<"s","d","2">>, <<"s","d","s">>,
      <<"i","r","c","a","m">>, <<"v","o","c">>, <<"w","6","4">>,
      <<"w","a","v">>, <<"n","i","s","t">>, <<"w","a","v","e","x">>,
      <<"w","v","e">>, <<"x","i">> }

(***************************************************************************)
(* The environment: the command line and the file system                   *)
(***************************************************************************)
\* args.parent_directory
parent_directory == <<".">>

\* the relative paths a command line may name
Paths ==
    { <<"a",".","w","a","v">>,      \* a finite, non-silent recording
      <<"b",".","W","A","V">>,      \* upper-case extension, all samples zero
      <<"c",".","t","x","t">>,      \* exists, not an audio extension
      <<"d",".","w","a","v">>,      \* does not exist
      <<"e",".","m","p","3">>,      \* exists, cannot be decoded
      <<"n",".","o","g","g">>,      \* decodes to samples containing NaN
      <<"z",".","a","u">> }         \* decodes to an empty sample buffer

\* os.path.join(directory, file_path) for a relative file_path
join(directory, file_path) == directory \o <<"/">> \o file_path

\* what the file at a full path holds; "absent" when there is no such file
FileContent(full_path) ==
    CASE full_path = join(parent_directory, <<"a",".","w","a","v">>) -> "ok"
      [] full_path = join(parent_directory, <<"b",".","W","A","V">>) -> "zeros"
      [] full_path = join(parent_directory, <<"c",".","t","x","t">>) -> "ok"
      [] full_path = join(parent_directory, <<"e",".","m","p","3">>) -> "corrupt"
      [] full_path = join(parent_directory, <<"n",".","o","g","g">>) -> "nan"
      [] full_path = join(parent_directory, <<"z",".","a","u">>) -> "empty"
      [] OTHER -> "absent"

\* the lists argparse accepts for sound_file_paths (nargs='+')
ArgLists == UNION { [1..n -> Paths] : n \in 1..MaxPaths }

(***************************************************************************)
(* Exceptions                                                              *)
(***************************************************************************)
\* classes derived from Exception
ExceptionSubclasses ==
    {"ImportError", "NoBackendError", "ParameterError", "ValueError", "EOFError"}

\* class AudioDataNotValid(BaseException): like KeyboardInterrupt and
\* SystemExit it is not an Exception
BaseExceptionOnly ==
    {"AudioDataNotValid", "KeyboardInterrupt", "SystemExit(0)", "SystemExit(2)"}

\* load_audio_files: "except Exception as e"
DecodeHandlerCatchesNothing(e) == FALSE

DecodeHandlerCatches(e) == e \in ExceptionSubclasses

\* the exit status once exception e has left main(): the __main__ guard turns
\* KeyboardInterrupt into sys.exit(0), SystemExit carries its own code, any
\* other exception is reported by the interpreter with status 1
MainGuardStatusNoHandler(e) ==
    CASE e = "SystemExit(0)" -> 0
      [] e = "SystemExit(2)" -> 2
      [] OTHER -> 1

MainGuardStatus(e) ==
    CASE e = "KeyboardInterrupt" -> 0
      [] e = "SystemExit(0)" -> 0
      [] e = "SystemExit(2)" -> 2
      [] OTHER -> 1

(***************************************************************************)
(* Library calls                                                           *)
(***************************************************************************)
\* os.path.exists(full_path)
path_exists(full_path) == FileContent(full_path) # "absent"

\* file_format.lower() in SUPPORTED_FORMATS
format_supported_any(full_path) == TRUE

format_supported(full_path) ==
    lower(file_format(full_path)) \in SUPPORTED_FORMATS

\* librosa.load(full_path): the decoded samples at the default rate, or the
\* exception the decoder raises; a KeyboardInterrupt may arrive during the call
librosa_load(full_path) ==
    { IF FileContent(full_path) = "corrupt"
      THEN [kind |-> "raise", exc |-> "NoBackendError"]
      ELSE [kind |-> "return", y |-> FileContent(full_path), sr |-> 22050],
      [kind |-> "raise", exc |-> "KeyboardInterrupt"] }

\* librosa.util.valid_audio(y): True, or ParameterError for a buffer that is
\* not finite everywhere; an empty or all-zero buffer is valid audio
valid_audio(y) == IF y = "nan" THEN "raise" ELSE "true"

\* librosa.stft(y): the matrix D, or (reflect padding of an empty signal, as
\* in releases that pad with mode "reflect") a ValueError
stft(y) == IF y = "empty" THEN {"return", "raise"} ELSE {"return"}

\* f'Sound {i}'
NameOf(file_path) == <<"Sound ">> \o file_path

\* f'Spectrogram of {sound_name}'
TitleOf(sound_name) == <<"Spectrogram of ">> \o sound_name

\* f'[Log(Hz) Scale] {sound_name}' / f'[Note Scale] {sound_name}'
WindowTitleOf(m, sound_name) ==
    IF m = "hz" THEN <<"[Log(Hz) Scale] ">> \o sound_name
                ELSE <<"[Note Scale] ">> \o sound_name

\* loaded_sounds.append((y, sr)); src is the index of the request the
\* waveform was decoded from (bookkeeping, not program state)
PrependLoaded(sounds, item) == <<item>> \o sounds

AppendLoaded(sounds, item) == Append(sounds, item)

(***************************************************************************)
(* Program state                                                           *)
(***************************************************************************)
NoMatrix == <<>>

Init ==
    /\ pc = "import"
    /\ file_paths = <<>>
    /\ sound_names = <<>>
    /\ loaded_sounds = <<>>
    /\ i = 1
    /\ diagnostics = <<>>
    /\ decodeCalls = <<>>
    /\ choice = "none"
    /\ mode = "none"
    /\ k = 1
    /\ figures = <<>>
    /\ stft_y = "none"
    /\ lastPrint = "none"
    /\ raised = "none"
    /\ raisedAt = "none"
    /\ interrupted = FALSE
    /\ status = -1
    /\ D = NoMatrix
    /\ S_db = NoMatrix

dbVars == <<D, S_db>>

argVars == <<file_paths, sound_names>>

loadVars == <<loaded_sounds, i, diagnostics, decodeCalls>>

menuVars == <<choice, mode, lastPrint>>

plotVars == <<k, figures, stft_y>>

exitVars == <<raised, raisedAt, interrupted, status>>

\* exception e, raised at position `at`, leaves main() and ends the process
Propagate(e, at) ==
    /\ pc' = "exited"
    /\ raised' = e
    /\ raisedAt' = at
    /\ interrupted' = (interrupted \/ e = "KeyboardInterrupt")
    /\ status' = MainGuardStatus(e)

\* the import block: every library loads, or ImportError and sys.exit(1)
ImportLibraries ==
    /\ pc = "import"
    /\ \/ /\ pc' = "parse"
          /\ UNCHANGED exitVars
       \/ /\ pc' = "exited"
          /\ raised' = "ImportError"
          /\ raisedAt' = "import"
          /\ status' = 1
          /\ UNCHANGED interrupted
    /\ UNCHANGED <<argVars, loadVars, menuVars, plotVars, dbVars>>

\* main: parser.parse_args(), then sound_names; argparse leaves with
\* SystemExit(0) after -h/--help and SystemExit(2) on a usage error
ParseArgs ==
    /\ pc = "parse"
    /\ \/ /\ \E paths \in ArgLists :
                /\ file_paths' = paths
                /\ sound_names' = [n \in 1..Len(paths) |-> NameOf(paths[n])]
          /\ pc' = "load"
          /\ UNCHANGED exitVars
       \/ /\ Propagate("SystemExit(0)", "parse")
          /\ UNCHANGED argVars
       \/ /\ Propagate("SystemExit(2)", "parse")
          /\ UNCHANGED argVars
    /\ UNCHANGED <<loadVars, menuVars, plotVars, dbVars>>

\* one iteration of load_audio_files' loop
LoadStep ==
    /\ pc = "load"
    /\ i <= Len(file_paths)
    /\ LET file_path == file_paths[i]
           full_path == join(parent_directory, file_path)
       IN  IF path_exists(full_path)
           THEN IF format_supported(full_path)
                THEN \E out \in librosa_load(full_path) :
                        /\ decodeCalls' =
                              Append(decodeCalls, [src |-> i, path |-> full_path])
                        /\ IF out.kind = "return"
                           THEN /\ loaded_sounds' = AppendLoaded(loaded_sounds,
                                      [y |-> out.y, sr |-> out.sr, src |-> i])
                                /\ i' = i + 1
                                /\ UNCHANGED <<pc, diagnostics, exitVars>>
                           ELSE IF DecodeHandlerCatches(out.exc)
                           THEN /\ diagnostics' = Append(diagnostics,
                                      [kind |-> "decode", text |-> out.exc,
                                       src |-> i])
                                /\ i' = i + 1
                                /\ interrupted' =
                                      (interrupted \/ out.exc = "KeyboardInterrupt")
                                /\ UNCHANGED <<pc, loaded_sounds, raised,
                                               raisedAt, status>>
                           ELSE /\ Propagate(out.exc, "load")
                                /\ UNCHANGED <<loaded_sounds, i, diagnostics>>
                ELSE /\ diagnostics' = Append(diagnostics,
                           [kind |-> "unsupported", text |-> full_path, src |-> i])
                     /\ i' = i + 1
                     /\ UNCHANGED <<pc, loaded_sounds, decodeCalls, exitVars>>
           ELSE /\ diagnostics' = Append(diagnostics,
                      [kind |-> "missing", text |-> full_path, src |-> i])
                /\ i' = i + 1
                /\ UNCHANGED <<pc, loaded_sounds, decodeCalls, exitVars>>
    /\ UNCHANGED <<argVars, menuVars, plotVars, dbVars>>

\* return loaded_sounds
LoadReturn ==
    /\ pc = "load"
    /\ i > Len(file_paths)
    /\ pc' = "prompt"
    /\ UNCHANGED <<argVars, loadVars, menuVars, plotVars, exitVars, dbVars>>

(***************************************************************************)
(* The menu loop of main                                                   *)
(***************************************************************************)
\* the strings input() may return
Inputs == {"1", "2", "3", "4", "one"}

\* match choice: the case a string selects
match_choice_exit_on_invalid(c) ==
    CASE c = "1" -> "hz"
      [] c = "2" -> "note"
      [] OTHER   -> "break"

match_choice(c) ==
    CASE c = "1" -> "hz"
      [] c = "2" -> "note"
      [] c = "3" -> "break"
      [] OTHER   -> "invalid"

\* choice = input(...), then the match statement up to the call of the plot
\* function, the break or the invalid-choice message
ReadChoice ==
    /\ pc = "prompt"
    /\ \E c \in Inputs :
          /\ choice' = c
          /\ LET case == match_choice(c)
             IN  CASE case \in {"hz", "note"} ->
                        /\ pc' = "plot"
                        /\ mode' = case
                        /\ k' = 1
                        /\ figures' = <<>>
                        /\ UNCHANGED <<lastPrint, stft_y, exitVars>>
                   [] case = "break" ->
                        /\ pc' = "exited"
                        /\ lastPrint' = "Exiting the program"
                        /\ status' = 0
                        /\ UNCHANGED <<mode, plotVars, raised, raisedAt,
                                       interrupted>>
                   [] OTHER ->
                        /\ lastPrint' = "Invalid Choice"
                        /\ UNCHANGED <<pc, mode, plotVars, exitVars>>
    /\ UNCHANGED <<argVars, loadVars, dbVars>>

\* input() on a closed standard input
InputEOF ==
    /\ pc = "prompt"
    /\ Propagate("EOFError", "prompt")
    /\ UNCHANGED <<argVars, loadVars, menuVars, plotVars, dbVars>>

(***************************************************************************)
(* plot_spectogram_hz / plot_spectogram_note_scale                         *)
(***************************************************************************)
\* the number of pairs zip(sound_names, raw_sounds) yields
ZipLen(names, raw_sounds) ==
    IF Len(names) < Len(raw_sounds) THEN Len(names) ELSE Len(raw_sounds)

\* one iteration of the plot loop: validate, transform, set the titles
PlotStep ==
    /\ pc = "plot"
    /\ k <= ZipLen(sound_names, loaded_sounds)
    /\ LET sound_name == sound_names[k]
           y == loaded_sounds[k].y
           valid == valid_audio(y)
       IN  CASE valid = "raise" ->
                  /\ Propagate("ParameterError", "valid_audio")
                  /\ UNCHANGED plotVars
             [] valid = "false" ->
                  /\ Propagate("AudioDataNotValid", "valid_audio")
                  /\ UNCHANGED plotVars
             [] OTHER ->
                  /\ stft_y' = y
                  /\ \E out \in stft(y) :
                        IF out = "return"
                        THEN /\ figures' = Append(figures,
                                   [title  |-> TitleOf(sound_name),
                                    window |-> WindowTitleOf(mode, sound_name),
                                    shows  |-> loaded_sounds[k].src])
                             /\ k' = k + 1
                             /\ UNCHANGED <<pc, exitVars>>
                        ELSE /\ Propagate("ValueError", "stft")
                             /\ UNCHANGED <<k, figures>>
    /\ UNCHANGED <<argVars, loadVars, menuVars, dbVars>>

\* plt.show() returns once the windows are closed; back to the prompt
PlotShowDropsSounds ==
    /\ pc = "plot"
    /\ k > ZipLen(sound_names, loaded_sounds)
    /\ pc' = "prompt"
    /\ loaded_sounds' = <<>>
    /\ UNCHANGED <<argVars, i, diagnostics, decodeCalls, menuVars, plotVars,
                   exitVars, dbVars>>

PlotShow ==
    /\ pc = "plot"
    /\ k > ZipLen(sound_names, loaded_sounds)
    /\ pc' = "prompt"
    /\ UNCHANGED <<argVars, loadVars, menuVars, plotVars, exitVars, dbVars>>

\* Ctrl-C while main() runs: between two steps of the loops, at the prompt,
\* or while the figures are shown
Interrupt ==
    /\ pc \in {"parse", "load", "prompt", "plot"}
    /\ Propagate("KeyboardInterrupt", pc)
    /\ UNCHANGED <<argVars, loadVars, menuVars, plotVars, dbVars>>

Next ==
    \/ ImportLibraries
    \/ ParseArgs
    \/ LoadStep
    \/ LoadReturn
    \/ ReadChoice
    \/ InputEOF
    \/ PlotStep
    \/ PlotShow
    \/ Interrupt

Spec == Init /\ [][Next]_vars

(***************************************************************************)
(* librosa.amplitude_to_db(np.abs(D), ref=np.max)                          *)
(*                                                                         *)
(* A magnitude m is represented by its level 20*log10(m) in whole dB; a    *)
(* magnitude of exactly zero by a level below every other one.             *)
(***************************************************************************)
\* amin = 1e-5, as a level
amin_db == -100

\* top_db = 80.0
top_db == 80

Cells == (1..NumBins) \X (1..NumFrames)

\* the levels a magnitude may have: zero, below amin, and two audible ones
Levels == {-1000, -120, -30, 10}

MagnitudeIsZero(level) == level = -1000

Max2(a, b) == IF a >= b THEN a ELSE b

\* np.max over the matrix
MatrixMax(M) == CHOOSE v \in {M[c] : c \in Cells} : \A c \in Cells : M[c] <= v

\* 10*log10(max(amin^2, S^2)) - 10*log10(max(amin^2, ref^2)), then
\* max(log_spec, log_spec.max() - top_db)
amplitude_to_db_default_ref(M) ==
    LET log_spec == [c \in Cells |-> Max2(M[c], amin_db) - Max2(0, amin_db)]
    IN  [c \in Cells |-> Max2(log_spec[c], MatrixMax(log_spec) - top_db)]

amplitude_to_db(M) ==
    LET ref_value == MatrixMax(M)
        log_spec == [c \in Cells |->
                        Max2(M[c], amin_db) - Max2(ref_value, amin_db)]
    IN  [c \in Cells |-> Max2(log_spec[c], MatrixMax(log_spec) - top_db)]

\* the state after D = librosa.stft(y) has returned, for any magnitudes
InitDb ==
    /\ pc = "stft_returned"
    /\ D \in [Cells -> Levels]
    /\ S_db = NoMatrix
    /\ file_paths = <<>>
    /\ sound_names = <<>>
    /\ loaded_sounds = <<>>
    /\ i = 1
    /\ diagnostics = <<>>
    /\ decodeCalls = <<>>
    /\ choice = "none"
    /\ mode = "none"
    /\ k = 1
    /\ figures = <<>>
    /\ stft_y = "none"
    /\ lastPrint = "none"
    /\ raised = "none"
    /\ raisedAt = "none"
    /\ interrupted = FALSE
    /\ status = -1

\* S_db = librosa.amplitude_to_db(np.abs(D), ref=np.max)
AmplitudeToDb ==
    /\ pc = "stft_returned"
    /\ S_db' = amplitude_to_db(D)
    /\ pc' = "db_computed"
    /\ UNCHANGED <<D, argVars, loadVars, menuVars, plotVars, exitVars>>

NextDb == AmplitudeToDb

SpecDb == InitDb /\ [][NextDb]_vars

(***************************************************************************)
(* Claims                                                                  *)
(***************************************************************************)
FullPath(n) == join(parent_directory, file_paths[n])

\* the requests load_audio_files has finished with
Processed == 1..(i - 1)

DiagnosticsOf(n) == {j \in 1..Len(diagnostics) : diagnostics[j].src = n}

LoadedOf(n) == {j \in 1..Len(loaded_sounds) : loaded_sounds[j].src = n}

DecodesOf(n) == {j \in 1..Len(decodeCalls) : decodeCalls[j].src = n}

DiagnosticKinds(kind) ==
    {j \in 1..Len(diagnostics) : diagnostics[j].kind = kind}

\* C1: load_audio_files lets no exception of the decoder escape and gives
\* every requested path exactly one outcome, a decoded entry or a skip
\* diagnostic: entries + diagnostics = paths processed, = paths requested once
\* it has returned; with 3 requests, 1 missing, 1 unsupported and 1 decoded,
\* the result has 1 entry and 2 diagnostics are printed.
C1_OneOutcomePerPath ==
    /\ Len(loaded_sounds) + Len(diagnostics) = i - 1
    /\ \A n \in Processed :
          Cardinality(LoadedOf(n)) + Cardinality(DiagnosticsOf(n)) = 1
    /\ pc \in {"prompt", "plot"} => i - 1 = Len(file_paths)
    /\ raisedAt = "load" => raised = "KeyboardInterrupt"
    /\ ( /\ pc = "prompt"
         /\ Len(file_paths) = 3
         /\ Cardinality({n \in 1..3 : ~path_exists(FullPath(n))}) = 1
         /\ Cardinality({n \in 1..3 : /\ path_exists(FullPath(n))
                                      /\ ~format_supported(FullPath(n))}) = 1
         /\ Cardinality({n \in 1..3 : FileContent(FullPath(n))
                                         \in {"ok", "zeros", "empty", "nan"}
                                      /\ format_supported(FullPath(n))}) = 1 )
       => Len(loaded_sounds) = 1 /\ Len(diagnostics) = 2

C1_Witness ==
    /\ pc = "prompt"
    /\ Len(file_paths) = 3
    /\ Len(loaded_sounds) = 1
    /\ Cardinality(DiagnosticKinds("missing")) = 1
    /\ Cardinality(DiagnosticKinds("unsupported")) = 1

\* C2: a validation failure of one sound during a plot request never ends the
\* run while sounds of the batch are still to be processed.
C2_InvalidSoundSkipped ==
    ~ ( /\ pc = "exited"
        /\ raisedAt = "valid_audio"
        /\ raised \in {"ParameterError", "AudioDataNotValid"}
        /\ k < ZipLen(sound_names, loaded_sounds) )

\* C3: librosa.load is invoked for a requested path exactly when the path
\* exists and its extension, lower-cased, is in SUPPORTED_FORMATS; a missing
\* path and an unsupported extension get their diagnostic and no decode.
C3_DecodeOnlyWhenSupported ==
    /\ \A j \in 1..Len(decodeCalls) :
          /\ FileContent(decodeCalls[j].path) # "absent"
          /\ lower(file_format(decodeCalls[j].path)) \in SUPPORTED_FORMATS
          /\ decodeCalls[j].path = FullPath(decodeCalls[j].src)
    /\ \A n \in Processed :
          /\ FileContent(FullPath(n)) = "absent" =>
                /\ DecodesOf(n) = {}
                /\ \E j \in DiagnosticsOf(n) :
                      /\ diagnostics[j].kind = "missing"
                      /\ diagnostics[j].text = FullPath(n)
          /\ ( /\ FileContent(FullPath(n)) # "absent"
               /\ lower(file_format(FullPath(n))) \notin SUPPORTED_FORMATS ) =>
                /\ DecodesOf(n) = {}
                /\ \E j \in DiagnosticsOf(n) :
                      /\ diagnostics[j].kind = "unsupported"
                      /\ diagnostics[j].text = FullPath(n)
          /\ ( /\ FileContent(FullPath(n)) # "absent"
               /\ lower(file_format(FullPath(n))) \in SUPPORTED_FORMATS ) =>
                Cardinality(DecodesOf(n)) = 1

C3_Witness ==
    /\ pc = "prompt"
    /\ \E j \in 1..Len(decodeCalls) :
          file_format(decodeCalls[j].path) = <<"W", "A", "V">>
    /\ DiagnosticKinds("missing") # {}
    /\ DiagnosticKinds("unsupported") # {}

\* C4: no STFT is run on a waveform that is empty, contains a non-finite
\* value, or consists only of zeros.
C4_NoTransformOnRejected ==
    stft_y \notin {"empty", "nan", "zeros"}

\* C5: the menu is looped until exit: from the prompt "1" starts the Hz plot,
\* "2" the note-scale plot, "3" leaves the loop, any other string prints the
\* invalid-choice message and stays at the prompt; a plot request whose calls
\* return ends at the prompt; the program finishes without an exception only
\* from the prompt with choice "3".
C5_MenuStep ==
    /\ (pc = "prompt" /\ raised' = "none" /\ choice' = "1") =>
          pc' = "plot" /\ mode' = "hz" /\ k' = 1 /\ figures' = <<>>
    /\ (pc = "prompt" /\ raised' = "none" /\ choice' = "2") =>
          pc' = "plot" /\ mode' = "note" /\ k' = 1 /\ figures' = <<>>
    /\ (pc = "prompt" /\ raised' = "none" /\ choice' = "3") =>
          pc' = "exited" /\ status' = 0
    /\ (pc = "prompt" /\ raised' = "none" /\ choice' \notin {"1", "2", "3"}) =>
          pc' = "prompt" /\ lastPrint' = "Invalid Choice"
    /\ (pc = "plot" /\ raised' = "none") => pc' \in {"plot", "prompt"}
    /\ (pc = "plot" /\ pc' = "prompt") =>
          Len(figures) = ZipLen(sound_names, loaded_sounds)
    /\ (pc \in {"prompt", "plot"} /\ pc' = "exited" /\ raised' = "none") =>
          pc = "prompt" /\ choice' = "3"

C5_MenuLoop == [][C5_MenuStep]_vars

C5_Witness ==
    /\ pc = "prompt"
    /\ lastPrint = "Invalid Choice"
    /\ choice = "2"
    /\ mode = "note"
    /\ Len(figures) = 2

\* C6 (as amended): a KeyboardInterrupt delivered anywhere in main, the call
\* of librosa.load included, ends the program with status 0; status 0 is
\* otherwise reported only by the exit through choice "3" and by argparse's
\* help exit.
C6_InterruptExitsZero ==
    /\ interrupted =>
          pc = "exited" /\ status = 0 /\ raised = "KeyboardInterrupt"
    /\ (raised = "KeyboardInterrupt") => interrupted
    /\ status = 0 =>
          \/ raised = "KeyboardInterrupt"
          \/ raised = "none" /\ choice = "3"
          \/ raised = "SystemExit(0)" /\ raisedAt = "parse"

C6_Witness ==
    /\ pc = "exited"
    /\ status = 0
    /\ raised = "KeyboardInterrupt"
    /\ raisedAt = "load"
    /\ DecodesOf(i) # {}
    /\ Len(loaded_sounds) = 1

\* C6 (as claimed): a KeyboardInterrupt in main ends the program with status
\* 0, and no termination path other than the exit through choice "3" does.
C6_OnlyInterruptAndExitReportZero ==
    /\ interrupted =>
          pc = "exited" /\ status = 0 /\ raised = "KeyboardInterrupt"
    /\ status = 0 =>
          \/ raised = "KeyboardInterrupt"
          \/ raised = "none" /\ choice = "3"

AllSilent == \A c \in Cells : MagnitudeIsZero(D[c])

\* C7: every value of the decibel matrix is <= 0 and >= the floor -top_db,
\* and unless every magnitude is zero the maximum of the matrix is 0 dB.
C7_DbRange ==
    pc = "db_computed" =>
        /\ \A c \in Cells : S_db[c] <= 0 /\ S_db[c] >= 0 - top_db
        /\ ~AllSilent => \E c \in Cells : S_db[c] = 0

C7_Witness ==
    /\ pc = "db_computed"
    /\ \E c \in Cells : S_db[c] = 0 /\ D[c] > 0
    /\ \E c \in Cells : S_db[c] = 0 - top_db /\ D[c] < amin_db
    /\ \E c \in Cells : S_db[c] < 0 /\ S_db[c] > 0 - top_db

\* C8: the title and the window label of every figure are those of the file
\* whose decoded waveform the figure shows.
C8_FigureCarriesOwnLabel ==
    \A j \in 1..Len(figures) :
        /\ figures[j].title = TitleOf(NameOf(file_paths[figures[j].shows]))
        /\ figures[j].window =
              WindowTitleOf(mode, NameOf(file_paths[figures[j].shows]))

\* the requests whose file exists, has a supported extension and decodes
Decodable(n) ==
    /\ FileContent(FullPath(n)) \notin {"absent", "corrupt"}
    /\ lower(file_format(FullPath(n))) \in SUPPORTED_FORMATS

\* C9: the list load_audio_files builds is the subsequence of the decoded
\* requests in request order, and a plot request goes through that list in
\* the same order, one figure at most per loaded sound.
C9_InputOrder ==
    /\ \A a, b \in 1..Len(loaded_sounds) :
          a < b => loaded_sounds[a].src < loaded_sounds[b].src
    /\ {loaded_sounds[j].src : j \in 1..Len(loaded_sounds)}
          = {n \in Processed : Decodable(n)}
    /\ \A j \in 1..Len(loaded_sounds) :
          loaded_sounds[j].y = FileContent(FullPath(loaded_sounds[j].src))
    /\ Len(figures) <= Len(loaded_sounds)
    /\ \A j \in 1..Len(figures) : figures[j].shows = loaded_sounds[j].src
    /\ pc = "plot" => Len(figures) = k - 1

C9_Witness ==
    /\ pc = "prompt"
    /\ Len(file_paths) = 3
    /\ Len(loaded_sounds) = 2
    /\ loaded_sounds[1].src = 1
    /\ loaded_sounds[2].src = 3
    /\ Len(figures) = 2

\* the figures a completed plot request in mode m leaves
FiguresOf(m) ==
    [j \in 1..ZipLen(sound_names, loaded_sounds) |->
        [title  |-> TitleOf(sound_names[j]),
         window |-> WindowTitleOf(m, sound_names[j]),
         shows  |-> loaded_sounds[j].src]]

\* C10: once the menu loop is entered no step changes loaded_sounds,
\* sound_names or the requested paths, and none invokes the decoder; a plot
\* request that returns has produced the figures the batch and the mode
\* determine, so a repeated choice produces the same ones.
C10_BatchStep ==
    pc \in {"prompt", "plot"} =>
        /\ loaded_sounds' = loaded_sounds
        /\ sound_names' = sound_names
        /\ file_paths' = file_paths
        /\ decodeCalls' = decodeCalls
        /\ diagnostics' = diagnostics
        /\ (pc = "plot" /\ pc' = "prompt") => figures' = FiguresOf(mode)

C10_BatchUnchanged == [][C10_BatchStep]_vars

C10_Witness ==
    /\ pc = "plot"
    /\ lastPrint = "Invalid Choice"
    /\ choice = "1"
    /\ Len(figures) = 1
    /\ Len(loaded_sounds) = 2
    /\ stft_y # "none"
    /\ k = 2

====
